---- MODULE Spec2Model ----
(***************************************************************************)
(* Model of the de_a_mentis data pipeline (src/de_a_mentis/dataset.py):    *)
(* the text cleaner, the retrying downloader, the Posadas spreadsheet      *)
(* fetcher, the two normalizers and the merger.                            *)
(*                                                                         *)
(* Text is a sequence of one-character strings, so that the regular        *)
(* expressions, str.lower, str.split and the id formatting are computed    *)
(* character by character.  Time is counted in tenths of a second.         *)
(***************************************************************************)
EXTENDS Integers, Sequences, FiniteSets, TLC

VARIABLES
    text, cleaned, cpc,       \* clean_text: the argument, the result, the position
    fs, prev, last, ncalls,   \* download_file: the destination, the last call, the one before
    excel, csv, run,          \* download_posadas: the .xlsx files, the combined CSV, the run
    posadas_csv, omdena_csv,  \* the raw CSV files the normalizers read
    cmd, result               \* the last processing command and what it returned

cleanVars == <<text, cleaned, cpc>>
dlVars == <<fs, prev, last, ncalls>>
posadasVars == <<excel, csv, run>>
procVars == <<posadas_csv, omdena_csv, cmd, result>>
vars == <<text, cleaned, cpc, fs, prev, last, ncalls, excel, csv, run,
          posadas_csv, omdena_csv, cmd, result>>

(***************************************************************************)
(* Bounds of the model.                                                    *)
(***************************************************************************)
MaxParts == 2
MaxInt == 12
MaxRetries == 4
MaxBackoff == 2
MaxCalls == 2
MaxSheetRows == 2
MaxRows == 2
MaxMergeRows == 6

(***************************************************************************)
(* Scalar values as pandas holds them.  k is the Python type of the value: *)
(* "nan" (None / NaN), "str", "int", "float" (an integral float) or "bool".*)
(***************************************************************************)
NaN == [k |-> "nan", n |-> 0, s |-> <<>>]
StrV(s) == [k |-> "str", n |-> 0, s |-> s]
IntV(n) == [k |-> "int", n |-> n, s |-> <<>>]
FloatV(n) == [k |-> "float", n |-> n, s |-> <<>>]
BoolV(b) == [k |-> "bool", n |-> IF b THEN 1 ELSE 0, s |-> <<>>]

\* pd.isna / pd.notna on a scalar
isna(v) == v.k = "nan"

\* The characters Python's \s, \S, str.split and str.strip treat as whitespace
Whitespace == {" ", "\t"}

Digits == <<"0", "1", "2", "3", "4", "5", "6", "7", "8", "9">>

RECURSIVE NatToStr(_)
NatToStr(n) ==
    IF n < 10 THEN <<Digits[n + 1]>>
    ELSE NatToStr(n \div 10) \o <<Digits[(n % 10) + 1]>>

\* str(x) of a value that is not missing
str(v) ==
    CASE v.k = "str" -> v.s
      [] v.k = "int" -> IF v.n < 0 THEN <<"-">> \o NatToStr(-v.n) ELSE NatToStr(v.n)
      [] v.k = "float" ->
            (IF v.n < 0 THEN <<"-">> \o NatToStr(-v.n) ELSE NatToStr(v.n)) \o <<".", "0">>
      [] v.k = "bool" -> IF v.n = 1 THEN <<"T", "r", "u", "e">> ELSE <<"F", "a", "l", "s", "e">>
      [] OTHER -> <<"n", "a", "n">>

StartsAt(s, i, p) ==
    /\ i + Len(p) - 1 <= Len(s)
    /\ SubSeq(s, i, i + Len(p) - 1) = p

\* Length of the match of  https?://  at position i, 0 when there is none
SchemeLen(s, i) ==
    IF StartsAt(s, i, <<"h", "t", "t", "p", "s", ":", "/", "/">>) THEN 8
    ELSE IF StartsAt(s, i, <<"h", "t", "t", "p", ":", "/", "/">>) THEN 7
    ELSE 0

\* Last position of the run of non-whitespace that starts at j (j - 1 when empty)
RECURSIVE NonSpaceEnd(_, _)
NonSpaceEnd(s, j) ==
    IF j > Len(s) \/ s[j] \in Whitespace THEN j - 1
    ELSE NonSpaceEnd(s, j + 1)

\* re.sub(r'https?://\S+', '', text), scanning from position i
RECURSIVE RemoveUrls(_, _)
RemoveUrls(s, i) ==
    IF i > Len(s) THEN <<>>
    ELSE LET h == SchemeLen(s, i)
             e == NonSpaceEnd(s, i + h)
         IN  IF h > 0 /\ e >= i + h
             THEN RemoveUrls(s, e + 1)
             ELSE <<s[i]>> \o RemoveUrls(s, i + 1)

\* re.sub(r'\s+', ' ', text), scanning from position i
RECURSIVE CollapseSpaces(_, _)
CollapseSpaces(s, i) ==
    IF i > Len(s) THEN <<>>
    ELSE IF s[i] \in Whitespace
         THEN IF i > 1 /\ s[i - 1] \in Whitespace
              THEN CollapseSpaces(s, i + 1)
              ELSE <<" ">> \o CollapseSpaces(s, i + 1)
         ELSE <<s[i]>> \o CollapseSpaces(s, i + 1)

RECURSIVE LStrip(_)
LStrip(s) ==
    IF s # <<>> /\ Head(s) \in Whitespace THEN LStrip(Tail(s)) ELSE s

RECURSIVE RStrip(_)
RStrip(s) ==
    IF s # <<>> /\ s[Len(s)] \in Whitespace THEN RStrip(SubSeq(s, 1, Len(s) - 1)) ELSE s

Upper == <<"A", "B", "C", "D", "E", "F", "G", "H", "I", "J", "K", "L", "M",
           "N", "O", "P", "Q", "R", "S", "T", "U", "V", "W", "X", "Y", "Z">>
Lower == <<"a", "b", "c", "d", "e", "f", "g", "h", "i", "j", "k", "l", "m",
           "n", "o", "p", "q", "r", "s", "t", "u", "v", "w", "x", "y", "z">>

\* str.lower()
lower(s) ==
    [i \in 1..Len(s) |->
        IF \E j \in 1..26 : Upper[j] = s[i]
        THEN Lower[CHOOSE j \in 1..26 : Upper[j] = s[i]]
        ELSE s[i]]

\* str.strip()
strip(s) == LStrip(RStrip(s))

clean_text_nonstring_empty(v) ==
    IF v.k # "str" THEN <<>>
    ELSE strip(CollapseSpaces(RemoveUrls(v.s, 1), 1))

clean_text(v) ==
    IF isna(v) THEN <<>>
    ELSE strip(CollapseSpaces(RemoveUrls(str(v), 1), 1))

(***************************************************************************)
(* Inputs of the text cleaner: every kind of scalar, the strings built     *)
(* from at most MaxParts pieces.                                           *)
(***************************************************************************)
Pieces ==
    { <<"h", "t", "t", "p", ":", "/", "/">>,
      <<"h", "t", "t", "p", "s", ":", "/", "/">>,
      <<"x">>, <<" ">>, <<"\t">>, <<"s", ":">> }

RECURSIVE Concat(_)
Concat(ps) == IF ps = <<>> THEN <<>> ELSE Head(ps) \o Concat(Tail(ps))

Texts == { Concat(ps) : ps \in UNION { [1..n -> Pieces] : n \in 0..MaxParts } }

Scalars ==
    {NaN} \cup { StrV(s) : s \in Texts } \cup { IntV(n) : n \in (-MaxInt)..MaxInt }
          \cup { FloatV(n) : n \in {-1, 0, 3} } \cup { BoolV(b) : b \in BOOLEAN }


(***************************************************************************)
(* download_file.  The destination is "absent", "partial" (opened for      *)
(* writing, the stream not completed) or "complete".  The transport's      *)
(* behaviour is env, one outcome per attempt:                              *)
(*   "ok"            the response is streamed to the end                   *)
(*   "request_fail"  requests.get / raise_for_status / open raise a        *)
(*                   RequestException or an IOError before any write       *)
(*   "stream_fail"   iter_content or f.write raise one after open()        *)
(*   "other_error"   an exception the except clause does not name, e.g.    *)
(*                   the ValueError of int() on a malformed content-length *)
(* The log is the sequence of requests and sleeps the call performs.       *)
(***************************************************************************)
Get(attempt) == [e |-> "get", x |-> attempt]
Sleep(wait) == [e |-> "sleep", x |-> wait]

wait_time_linear(backoff_factor, attempt) == backoff_factor * (attempt + 1)

\* backoff_factor * (2 ** attempt)
wait_time(backoff_factor, attempt) == backoff_factor * (2 ^ attempt)

\* What a failed attempt leaves at the destination
after_failure(file, outcome) ==
    IF outcome = "stream_fail" THEN "partial" ELSE file

\* for attempt in range(retries): ... ; return False
RECURSIVE attempts(_, _, _, _, _, _)
attempts(attempt, retries, backoff_factor, env, file, log) ==
    IF attempt >= retries THEN [ret |-> "False", fs |-> file, log |-> log]
    ELSE LET o == env[attempt + 1]
             log1 == Append(log, Get(attempt))
         IN  CASE o = "ok" -> [ret |-> "True", fs |-> "complete", log |-> log1]
               [] o = "other_error" -> [ret |-> "raised", fs |-> file, log |-> log1]
               [] OTHER ->
                    IF attempt < retries - 1
                    THEN attempts(attempt + 1, retries, backoff_factor, env,
                                  after_failure(file, o),
                                  Append(log1, Sleep(wait_time(backoff_factor, attempt))))
                    ELSE [ret |-> "False", fs |-> after_failure(file, o), log |-> log1]

download_file_no_skip(file, retries, backoff_factor, env) ==
    attempts(0, retries, backoff_factor, env, file, <<>>)

download_file(file, retries, backoff_factor, env) ==
    IF file # "absent" THEN [ret |-> "True", fs |-> file, log |-> <<>>]
    ELSE attempts(0, retries, backoff_factor, env, file, <<>>)

\* The requests a call performed
gets(log) == Cardinality({i \in 1..Len(log) : log[i].e = "get"})

\* The transports a call of `retries` attempts can tell apart: failures up to the
\* attempt that ends the call ("ok" standing for what is never asked), and a
\* single one for a call that finds the destination and asks nothing
Transports(file, retries) ==
    IF file # "absent" THEN {[i \in 1..retries |-> "ok"]}
    ELSE [1..retries -> {"request_fail", "stream_fail"}]
         \cup UNION { { [i \in 1..retries |->
                            IF i < j THEN f[i] ELSE IF i = j THEN o ELSE "ok"] :
                          f \in [1..(j - 1) -> {"request_fail", "stream_fail"}],
                          o \in {"ok", "other_error"} } : j \in 1..retries }

NoCall ==
    [exists |-> FALSE, retries |-> 0, backoff |-> 0, env |-> <<>>, ret |-> "none", log |-> <<>>]

\* What is remembered of the call before the last one
Summary(call) == [ret |-> call.ret, gets |-> gets(call.log)]


(***************************************************************************)
(* pd.read_csv.  A CSV file is [columns, rows], each row a function from   *)
(* the columns to the text of the cell, <<>> for an empty cell.  Reading   *)
(* infers each column's type: an empty cell is NaN; a column of boolean    *)
(* literals is read as booleans, a column of integer literals as integers  *)
(* (as floats when a cell is empty), anything else as strings.             *)
(***************************************************************************)
BoolLiterals ==
    { <<"T", "r", "u", "e">>, <<"T", "R", "U", "E">>, <<"t", "r", "u", "e">>,
      <<"F", "a", "l", "s", "e">>, <<"F", "A", "L", "S", "E">>, <<"f", "a", "l", "s", "e">> }

IsIntLiteral(s) ==
    /\ s # <<>>
    /\ \A i \in 1..Len(s) : \E d \in 1..10 : Digits[d] = s[i]

RECURSIVE ParseNat(_)
ParseNat(s) ==
    IF s = <<>> THEN 0
    ELSE 10 * ParseNat(SubSeq(s, 1, Len(s) - 1))
            + (CHOOSE d \in 0..9 : Digits[d + 1] = s[Len(s)])

Column(rows, col) == [i \in 1..Len(rows) |-> rows[i][col]]

\* The type read_csv gives a column
dtype(cells) ==
    LET filled == {i \in 1..Len(cells) : cells[i] # <<>>}
    IN  IF Len(cells) = 0 THEN "object"
        ELSE IF filled = {} THEN "float"
        ELSE IF \A i \in filled : cells[i] \in BoolLiterals THEN "bool"
        ELSE IF \A i \in filled : IsIntLiteral(cells[i])
             THEN IF filled = 1..Len(cells) THEN "int" ELSE "float"
        ELSE "object"

parse_cell(cell, type) ==
    IF cell = <<>> THEN NaN
    ELSE CASE type = "bool" -> BoolV(lower(cell) = <<"t", "r", "u", "e">>)
           [] type = "int" -> IntV(ParseNat(cell))
           [] type = "float" -> FloatV(ParseNat(cell))
           [] OTHER -> StrV(cell)

read_csv(file) ==
    [columns |-> file.columns,
     rows |-> [i \in 1..Len(file.rows) |->
                 [col \in file.columns |->
                     parse_cell(file.rows[i][col], dtype(Column(file.rows, col)))]]]

(***************************************************************************)
(* The normalizers.  A result is [raised, rows]: raised is "none" or the   *)
(* exception that ends the call; a row has the five common columns.        *)
(***************************************************************************)
SinTitulo == <<"S", "i", "n", " ", "T", "i", "t", "u", "l", "o">>
SinSource == <<"S", "i", "n", " ", "S", "o", "u", "r", "c", "e">>
Omdena == <<"o", "m", "d", "e", "n", "a">>
Posadas == <<"p", "o", "s", "a", "d", "a", "s">>
Fake == <<"f", "a", "k", "e">>
TitleWords == 8

\* Series.fillna(value)
fillna(v, value) == IF isna(v) THEN StrV(value) ELSE v

\* The .str accessor exists only on a column of strings (or an empty column)
has_str_accessor(cells) ==
    \/ Len(cells) = 0
    \/ \E i \in 1..Len(cells) : cells[i].k = "str"

\* Series.str.lower(), per element: NaN for what is not a string
str_lower(v) == IF v.k = "str" THEN StrV(lower(v.s)) ELSE NaN

\* str.split(): the words between runs of whitespace
RECURSIVE split(_)
split(s) ==
    LET t == LStrip(s)
        e == NonSpaceEnd(t, 1)
    IN  IF t = <<>> THEN <<>>
        ELSE <<SubSeq(t, 1, e)>> \o split(SubSeq(t, e + 1, Len(t)))

\* ' '.join(words)
RECURSIVE join(_)
join(words) ==
    IF words = <<>> THEN <<>>
    ELSE IF Len(words) = 1 THEN words[1]
    ELSE words[1] \o <<" ">> \o join(Tail(words))

\* ' '.join(str(x).split()[:8]) + '...' if pd.notna(x) else ""
synthesize_title(x) ==
    IF isna(x) THEN StrV(<<>>)
    ELSE LET words == split(str(x))
         IN  StrV(join(SubSeq(words, 1, IF Len(words) < TitleWords THEN Len(words) ELSE TitleWords))
                    \o <<".", ".", ".">>)

Raised(exc) == [raised |-> exc, rows |-> <<>>]

\* Lines 310-325 and 273-285: what both normalizers do once the columns are chosen
standardize(row, dataset) ==
    [label |-> row.label,
     content |-> StrV(clean_text(row.content)),
     title |-> fillna(StrV(clean_text(row.title)), SinTitulo),
     source |-> fillna(row.source, SinSource),
     dataset_source |-> StrV(dataset)]

\* replace({'false': 'fake'})
replace_false_keep(v) == v

replace_false(v) == IF v = StrV(<<"f", "a", "l", "s", "e">>) THEN StrV(Fake) ELSE v

PosadasColumns == {"source", "headline", "text", "category"}

process_posadas_dataset(file) ==
    LET df == read_csv(file)
        n == Len(df.rows)
        clean == [i \in 1..n |->
                    standardize([label |-> df.rows[i]["category"],
                                 content |-> df.rows[i]["text"],
                                 title |-> df.rows[i]["headline"],
                                 source |-> df.rows[i]["source"]], Posadas)]
    IN  IF ~(PosadasColumns \subseteq df.columns) THEN Raised("KeyError")
        ELSE IF ~has_str_accessor([i \in 1..n |-> clean[i].label]) THEN Raised("AttributeError")
        ELSE [raised |-> "none",
              rows |-> [i \in 1..n |->
                          [clean[i] EXCEPT !.label = replace_false(str_lower(clean[i].label))]]]

\* The source column of the label: corrected_label, else prediction
label_column(columns) ==
    IF "corrected_label" \in columns THEN "corrected_label" ELSE "prediction"

\* df_clean[col] = "" for a column the source does not have
fill_missing == StrV(<<>>)

process_omdena_dataset(file) ==
    LET df == read_csv(file)
        n == Len(df.rows)
        lab == label_column(df.columns)
        Cell(i, col) == IF col \in df.columns THEN df.rows[i][col] ELSE fill_missing
        title(i) ==
            IF "title" \notin df.columns /\ "content" \in df.columns
            THEN synthesize_title(df.rows[i]["content"])
            ELSE Cell(i, "title")
        clean == [i \in 1..n |->
                    standardize([label |-> Cell(i, lab),
                                 content |-> Cell(i, "content"),
                                 title |-> title(i),
                                 source |-> Cell(i, "source")], Omdena)]
    IN  IF ~has_str_accessor([i \in 1..n |-> clean[i].label]) THEN Raised("AttributeError")
        ELSE [raised |-> "none",
              rows |-> [i \in 1..n |-> [clean[i] EXCEPT !.label = str_lower(clean[i].label)]]]

(***************************************************************************)
(* merge_datasets                                                          *)
(***************************************************************************)
IdWidth == 6

RECURSIVE zero_pad(_, _)
zero_pad(s, width) == IF Len(s) >= width THEN s ELSE zero_pad(<<"0">> \o s, width)

format_id_from_one(i) == <<"f", "n", "_">> \o zero_pad(NatToStr(i + 1), IdWidth)

\* f'fn_{i:06d}'
format_id(i) == <<"f", "n", "_">> \o zero_pad(NatToStr(i), IdWidth)

\* Series.nunique(): the distinct values that are not missing
nunique(cells) == Cardinality({cells[i] : i \in {j \in 1..Len(cells) : ~isna(cells[j])}})

with_id(row, i) ==
    [label |-> row.label, content |-> row.content, title |-> row.title,
     source |-> row.source, dataset_source |-> row.dataset_source,
     id |-> StrV(format_id(i))]

merge_datasets(posadas_file, omdena_file) ==
    LET posadas_df == process_posadas_dataset(posadas_file)
        omdena_df == process_omdena_dataset(omdena_file)
        combined == posadas_df.rows \o omdena_df.rows
    IN  IF posadas_df.raised # "none" THEN [raised |-> posadas_df.raised, rows |-> <<>>, warned |-> FALSE]
        ELSE IF omdena_df.raised # "none" THEN [raised |-> omdena_df.raised, rows |-> <<>>, warned |-> FALSE]
        ELSE [raised |-> "none",
              rows |-> [i \in 1..Len(combined) |-> with_id(combined[i], i - 1)],
              warned |-> nunique([i \in 1..Len(combined) |-> combined[i].label]) > 2]

(***************************************************************************)
(* The raw CSV files the processing commands are tried on.                 *)
(***************************************************************************)
tFalse == <<"F", "a", "l", "s", "e">>
tFAKE == <<"F", "A", "K", "E">>
tTrue == <<"T", "r", "u", "e">>
tOne == <<"1">>
tSrc == <<"s">>
tTitle == <<" ", "T", " ", " ", "t">>
tUrl == <<"h", "t", "t", "p", ":", "/", "/", "x">>
tUrlText == <<"a", " ", "h", "t", "t", "p", "s", ":", "/", "/", "x", " ", " ", "b">>
tWords == <<"a", " ", "b", " ", "c", " ", "d", " ", "e", "\t", "f", " ", "g", " ", "h", " ", "i", " ", "j">>

PosadasRows ==
    { [source |-> tSrc, headline |-> tTitle, text |-> tUrlText, category |-> tFalse],
      [source |-> <<>>, headline |-> <<>>, text |-> <<>>, category |-> tFAKE],
      [source |-> tSrc, headline |-> tUrl, text |-> tWords, category |-> tTrue],
      [source |-> <<>>, headline |-> tTitle, text |-> tUrlText, category |-> <<>>],
      [source |-> tOne, headline |-> tOne, text |-> tOne, category |-> tOne] }

OmdenaColumns == {"corrected_label", "prediction", "content", "title", "source"}

OmdenaRows ==
    { [corrected_label |-> tFAKE, prediction |-> tOne, content |-> tWords,
       title |-> <<>>, source |-> <<>>],
      [corrected_label |-> tTrue, prediction |-> tFalse, content |-> tUrlText,
       title |-> tTitle, source |-> tSrc],
      [corrected_label |-> <<>>, prediction |-> <<>>, content |-> <<>>,
       title |-> tUrl, source |-> tSrc],
      [corrected_label |-> tFalse, prediction |-> tFAKE, content |-> tOne,
       title |-> <<>>, source |-> tOne],
      [corrected_label |-> tOne, prediction |-> tOne, content |-> tSrc,
       title |-> tOne, source |-> <<>>] }

\* Every raw file also has the split column the fetchers add
tTrain == <<"t", "r", "a", "i", "n">>

Restrict(row, columns) ==
    [col \in columns \cup {"split"} |-> IF col = "split" THEN tTrain ELSE row[col]]

\* Every file of at most max rows drawn from pool, under every subset of the columns
Files(pool, columns, max) ==
    UNION { { [columns |-> cs \cup {"split"}, rows |-> [i \in 1..n |-> Restrict(r[i], cs)]] :
                r \in [1..n -> pool], cs \in SUBSET columns } : n \in 0..max }

\* The file of n rows that alternates two rows of the pool
Alternating(a, b, n, columns) ==
    [columns |-> columns \cup {"split"},
     rows |-> [i \in 1..n |-> Restrict(IF i % 2 = 1 THEN a ELSE b, columns)]]

MergePosadasFiles ==
    LET a == [source |-> <<>>, headline |-> <<>>, text |-> <<>>, category |-> tFAKE]
        b == [source |-> tSrc, headline |-> tTitle, text |-> tUrlText, category |-> tFalse]
    IN  { Alternating(a, b, n, cs) : n \in 0..MaxMergeRows,
                                      cs \in {PosadasColumns, PosadasColumns \ {"headline"}} }
        \cup { Alternating(b, a, n, PosadasColumns) : n \in 0..MaxMergeRows }

MergeOmdenaFiles ==
    LET a == [corrected_label |-> tFAKE, prediction |-> tOne, content |-> tWords,
              title |-> <<>>, source |-> <<>>]
        b == [corrected_label |-> tTrue, prediction |-> tFalse, content |-> tUrlText,
              title |-> tTitle, source |-> tSrc]
    IN  { Alternating(a, b, n, cs) : n \in 0..MaxMergeRows,
                                      cs \in {OmdenaColumns, {"prediction", "content"}} }
        \cup { Alternating(b, a, n, OmdenaColumns) : n \in 0..MaxMergeRows }

\* Files with a header and no row
EmptyPosadas == [columns |-> PosadasColumns \cup {"split"}, rows |-> <<>>]
EmptyOmdena == [columns |-> OmdenaColumns \cup {"split"}, rows |-> <<>>]
NoResult == [raised |-> "none", rows |-> <<>>, warned |-> FALSE]

(***************************************************************************)
(* Claims about clean_text, checked under SpecClean.                       *)
(***************************************************************************)
\* C8 as stated: for every input that is not a string (a number, a boolean, a
\* missing value) clean_text returns the empty string.
C8_NonStringGivesEmpty ==
    (cpc = "returned" /\ text.k # "str") => cleaned = <<>>

\* The decimal digits of a number, without its sign
IsDigits(s) == \A i \in 1..Len(s) : \E d \in 1..10 : Digits[d] = s[i]

\* C8 as amended: a missing input gives the empty string; a number or a boolean
\* is coerced to its string form, which is never empty: the decimal numeral of an
\* integer (with its sign), that numeral followed by ".0" for an integral float,
\* "True" or "False" for a boolean.
C8_MissingGivesEmptyOthersCoerced ==
    cpc = "returned" =>
        /\ text.k = "nan" => cleaned = <<>>
        /\ text.k = "bool" => cleaned = (IF text.n = 1 THEN tTrue ELSE tFalse)
        /\ text.k \in {"int", "float"} =>
              LET digits == IF text.n < 0 THEN Tail(cleaned) ELSE cleaned
                  numeral == IF text.k = "float"
                             THEN SubSeq(digits, 1, Len(digits) - 2) ELSE digits
              IN  /\ cleaned # <<>>
                  /\ text.n < 0 => Head(cleaned) = "-"
                  /\ text.k = "float" => SubSeq(digits, Len(digits) - 1, Len(digits)) = <<".", "0">>
                  /\ numeral # <<>> /\ IsDigits(numeral)
                  /\ ParseNat(numeral) = (IF text.n < 0 THEN -text.n ELSE text.n)

C8_Witness ==
    /\ cpc = "returned"
    /\ text = IntV(12)
    /\ cleaned = <<"1", "2">>

(***************************************************************************)
(* Claims about the normalizers and the merger, checked under SpecProcess. *)
(***************************************************************************)
Normalized == cmd \in {"process_posadas", "process_omdena"} /\ result.raised = "none"

\* The raw file a normalizer command read, and the columns it takes the title,
\* the source and the label from
Raw == IF cmd = "process_posadas" THEN posadas_csv ELSE omdena_csv
TitleColumn == IF cmd = "process_posadas" THEN "headline" ELSE "title"
LabelColumn ==
    IF cmd = "process_posadas" THEN "category"
    ELSE IF "corrected_label" \in omdena_csv.columns THEN "corrected_label" ELSE "prediction"

\* C6: in every row a normalizer outputs, a title missing in the source row is
\* "Sin Titulo" and a source missing in the source row is "Sin Source".
C6_SentinelDefaults ==
    Normalized =>
        \A i \in 1..Len(result.rows) :
            /\ (TitleColumn \in Raw.columns /\ Raw.rows[i][TitleColumn] = <<>>)
                  => result.rows[i].title = StrV(SinTitulo)
            /\ ("source" \in Raw.columns /\ Raw.rows[i]["source"] = <<>>)
                  => result.rows[i].source = StrV(SinSource)

\* The half of C6 the code does keep: a missing source comes out as "Sin Source"
C6_SourceSentinel ==
    Normalized =>
        \A i \in 1..Len(result.rows) :
            ("source" \in Raw.columns /\ Raw.rows[i]["source"] = <<>>)
                => result.rows[i].source = StrV(SinSource)

\* The label column is one the .str accessor works on: absent (omdena fills it
\* with ""), without rows, or with cells that are not all empty, not all
\* booleans and not all numbers
LabelIsText(file, col) ==
    \/ col \notin file.columns
    \/ file.rows = <<>>
    \/ /\ \E i \in 1..Len(file.rows) :
             file.rows[i][col] # <<>> /\ file.rows[i][col] \notin BoolLiterals
       /\ \E i \in 1..Len(file.rows) :
             file.rows[i][col] # <<>> /\ ~IsIntLiteral(file.rows[i][col])

FiveColumns(row) ==
    {"label", "content", "title", "source", "dataset_source"} \subseteq DOMAIN row

\* C7: whatever subset of a normalizer's expected columns is absent from the raw
\* table, the normalizer raises nothing and returns a table with the five common
\* columns (the label column, where present, being text).
C7_AbsentColumnsAbsorbed ==
    (cmd \in {"process_posadas", "process_omdena"} /\ LabelIsText(Raw, LabelColumn)) =>
        /\ result.raised = "none"
        /\ \A i \in 1..Len(result.rows) : FiveColumns(result.rows[i])

\* What the code does about absent columns: process_omdena_dataset never raises
\* KeyError and returns one five-column row per source row exactly when the label
\* column it reads is text (or absent), with "" in each absent column;
\* process_posadas_dataset raises KeyError exactly when one of its four columns
\* is absent.
AbsentColumnsOmdenaOnly ==
    /\ cmd = "process_omdena" =>
          /\ result.raised # "KeyError"
          /\ result.raised = "none" <=> LabelIsText(omdena_csv, LabelColumn)
          /\ result.raised = "none" =>
                /\ Len(result.rows) = Len(omdena_csv.rows)
                /\ \A i \in 1..Len(result.rows) :
                      /\ FiveColumns(result.rows[i])
                      /\ LabelColumn \notin omdena_csv.columns => result.rows[i].label = StrV(<<>>)
                      /\ "content" \notin omdena_csv.columns => result.rows[i].content = StrV(<<>>)
                      /\ "source" \notin omdena_csv.columns => result.rows[i].source = StrV(<<>>)
                      /\ {"title", "content"} \cap omdena_csv.columns = {}
                            => result.rows[i].title = StrV(<<>>)
    /\ cmd = "process_posadas" =>
          (result.raised = "KeyError" <=> ~(PosadasColumns \subseteq posadas_csv.columns))

\* C9: every row process_posadas_dataset outputs has a lower-cased label that is
\* never "false": a source label "false" in any letter case comes out as "fake",
\* every other label as its lower-cased form, with dataset_source "posadas".
C9_FalseBecomesFake ==
    (cmd = "process_posadas" /\ result.raised = "none") =>
        /\ Len(result.rows) = Len(posadas_csv.rows)
        /\ \A i \in 1..Len(result.rows) :
              LET src == posadas_csv.rows[i]["category"]
                  out == result.rows[i].label
              IN  /\ result.rows[i].dataset_source = StrV(Posadas)
                  /\ out # StrV(<<"f", "a", "l", "s", "e">>)
                  /\ src = <<>> => isna(out)
                  /\ src # <<>> =>
                        /\ out.k = "str"
                        /\ \A c \in 1..Len(out.s) : \A u \in 1..26 : out.s[c] # Upper[u]
                        /\ src \in {tFalse, <<"F", "A", "L", "S", "E">>, <<"f", "a", "l", "s", "e">>}
                              => out.s = Fake
                        /\ src = tFAKE => out.s = Fake
                        /\ src = tTrue => out.s = <<"t", "r", "u", "e">>
                        /\ src = tOne => out.s = tOne

C9_Witness ==
    /\ cmd = "process_posadas"
    /\ result.raised = "none"
    /\ Len(result.rows) = 2
    /\ posadas_csv.rows[1]["category"] = tFalse
    /\ posadas_csv.rows[2]["category"] = tOne
    /\ result.rows[1].label = StrV(Fake)
    /\ result.rows[2].label = StrV(tOne)

\* The digits of an id, after its "fn_" prefix
IdDigits(id) == SubSeq(id.s, 4, Len(id.s))

WithoutId(row) ==
    [label |-> row.label, content |-> row.content, title |-> row.title,
     source |-> row.source, dataset_source |-> row.dataset_source]

\* C5: merging a normalized posadas table of n rows with a normalized omdena
\* table of m rows gives n + m rows, the posadas rows first and then the omdena
\* rows, each in their order, the row at position i (from 0) having the id "fn_"
\* followed by i zero-padded to six digits, so that the ids are pairwise distinct.
C5_MergeOrderAndIds ==
    (cmd = "merge" /\ result.raised = "none") =>
        LET p == process_posadas_dataset(posadas_csv).rows
            o == process_omdena_dataset(omdena_csv).rows
            n == Len(posadas_csv.rows)
            m == Len(omdena_csv.rows)
        IN  /\ Len(result.rows) = n + m
            /\ \A i \in 1..n :
                  /\ WithoutId(result.rows[i]) = p[i]
                  /\ result.rows[i].dataset_source = StrV(Posadas)
            /\ \A j \in 1..m :
                  /\ WithoutId(result.rows[n + j]) = o[j]
                  /\ result.rows[n + j].dataset_source = StrV(Omdena)
            /\ \A i \in 1..(n + m) :
                  LET id == result.rows[i].id
                  IN  /\ id.k = "str"
                      /\ SubSeq(id.s, 1, 3) = <<"f", "n", "_">>
                      /\ Len(IdDigits(id)) = 6
                      /\ IsDigits(IdDigits(id))
                      /\ ParseNat(IdDigits(id)) = i - 1
            /\ \A i \in 1..(n + m) : \A j \in 1..(n + m) :
                  i # j => result.rows[i].id # result.rows[j].id

C5_Witness ==
    /\ cmd = "merge"
    /\ result.raised = "none"
    /\ Len(posadas_csv.rows) = 6
    /\ Len(omdena_csv.rows) = 5
    /\ result.rows[11].id = StrV(<<"f", "n", "_", "0", "0", "0", "0", "1", "0">>)
    /\ result.rows[6].dataset_source = StrV(Posadas)
    /\ result.rows[7].dataset_source = StrV(Omdena)

(***************************************************************************)
(* Claims about download_file, checked under SpecDownload.                 *)
(***************************************************************************)
Failing == {"request_fail", "stream_fail"}

AllFail(call) ==
    /\ call.ret # "none"
    /\ ~call.exists
    /\ \A i \in 1..Len(call.env) : call.env[i] \in Failing

\* get 0, sleep b, get 1, sleep 2b, get 2, sleep 4b, ..., get retries-1
BackoffSchedule(retries, backoff) ==
    [i \in 1..(IF retries = 0 THEN 0 ELSE 2 * retries - 1) |->
        IF i % 2 = 1 THEN Get((i - 1) \div 2)
        ELSE Sleep(backoff * (2 ^ ((i - 2) \div 2)))]

sleeps(log) == {i \in 1..Len(log) : log[i].e = "sleep"}

\* C1: on a destination that does not exist and a transport that fails on every
\* attempt, the call makes exactly `retries` requests, sleeps backoff_factor * 2^k
\* between request k and request k+1 (so the delays never decrease), does not
\* sleep after the last request, and returns False.
C1_RetryBound ==
    AllFail(last) =>
        /\ last.ret = "False"
        /\ gets(last.log) = last.retries
        /\ last.log = BackoffSchedule(last.retries, last.backoff)
        /\ \A i \in sleeps(last.log) : \A j \in sleeps(last.log) :
              i < j => last.log[i].x <= last.log[j].x
        /\ last.log # <<>> => last.log[Len(last.log)].e = "get"

C1_Witness ==
    /\ AllFail(last)
    /\ last.retries = 4
    /\ last.backoff = 2
    /\ last.ret = "False"
    /\ Cardinality(sleeps(last.log)) = 3
    /\ last.log[6] = Sleep(8)

\* C2 as stated: of any two consecutive calls on the same destination, the second
\* performs no request.
C2_SecondCallNoRequest ==
    ncalls >= 2 => gets(last.log) = 0

\* C2 as amended: when the first of two consecutive calls returned True, the second
\* finds the destination, performs no request and returns True; in general the
\* second call performs no request exactly when the destination exists as it
\* starts (or it is given no attempt at all).
C2_SecondCallNoRequestAfterSuccess ==
    ncalls >= 2 =>
        /\ prev.ret = "True" => (last.exists /\ gets(last.log) = 0 /\ last.ret = "True")
        /\ gets(last.log) = 0 <=> (last.exists \/ last.retries = 0)

C2_Witness ==
    /\ ncalls >= 2
    /\ prev.ret = "True"
    /\ prev.gets > 0
    /\ last.retries > 0
    /\ gets(last.log) = 0

\* C10: a call returns True only if the destination holds a completely streamed
\* response (a failed attempt leaves no file behind for a later call to skip on).
C10_TrueOnlyIfComplete ==
    last.ret = "True" => fs = "complete"

(***************************************************************************)
(* download_posadas.  A spreadsheet is -1 (not a readable workbook) or the *)
(* number of data rows of its sheet; row n of the sheet served for split s *)
(* is [origin |-> s, n |-> n].  A file on disk is [st, sheet].             *)
(***************************************************************************)
DefaultRetries == 3
DefaultBackoff == 5

Splits == <<"train", "test", "dev">>
SplitNames == {"train", "test", "dev"}

\* The header row of the remote spreadsheets
Header == { <<"I", "d">>, <<"C", "a", "t", "e", "g", "o", "r", "y">>, <<" ", "T", "e", "x", "t">> }

NoFile == [st |-> "absent", sheet |-> 0]

\* df.columns.str.strip().str.lower()
normalize_columns(columns) == { lower(strip(c)) : c \in columns }

\* pd.read_excel(excel_path): "error" or the table of the workbook
read_excel(file, name) ==
    IF file.st # "complete" \/ file.sheet < 0 THEN [err |-> TRUE, columns |-> {}, rows |-> <<>>]
    ELSE [err |-> FALSE, columns |-> Header,
          rows |-> [n \in 1..file.sheet |-> [origin |-> name, n |-> n, split |-> "none"]]]

tag_split_train(df, name) ==
    [columns |-> normalize_columns(df.columns) \cup {<<"s", "p", "l", "i", "t">>},
     rows |-> [n \in 1..Len(df.rows) |-> [df.rows[n] EXCEPT !.split = "train"]]]

\* df.columns = ...; df["split"] = name
tag_split(df, name) ==
    [columns |-> normalize_columns(df.columns) \cup {<<"s", "p", "l", "i", "t">>},
     rows |-> [n \in 1..Len(df.rows) |-> [df.rows[n] EXCEPT !.split = name]]]

\* The file download_file leaves at excel_path
downloaded(file, r, sheet) ==
    IF file.st # "absent" THEN file
    ELSE IF r.fs = "complete" THEN [st |-> "complete", sheet |-> sheet]
    ELSE [st |-> r.fs, sheet |-> 0]

\* for name, url in urls.items(): ...
RECURSIVE fetch_splits(_, _, _, _)
fetch_splits(i, inputs, files, dfs) ==
    IF i > Len(Splits) THEN [raised |-> FALSE, files |-> files, dfs |-> dfs]
    ELSE LET name == Splits[i]
             r == download_file(files[name].st, DefaultRetries, DefaultBackoff, inputs[name].env)
             files1 == [files EXCEPT ![name] = downloaded(files[name], r, inputs[name].sheet)]
             df == read_excel(files1[name], name)
         IN  IF r.ret = "raised" THEN [raised |-> TRUE, files |-> files1, dfs |-> dfs]
             ELSE IF r.ret = "False" THEN fetch_splits(i + 1, inputs, files1, dfs)
             ELSE IF df.err \/ Len(df.rows) = 0 THEN fetch_splits(i + 1, inputs, files1, dfs)
             ELSE fetch_splits(i + 1, inputs, files1, Append(dfs, tag_split(df, name)))

\* pd.concat(dfs, ignore_index=True)
RECURSIVE concat(_)
concat(dfs) ==
    IF dfs = <<>> THEN [columns |-> {}, rows |-> <<>>]
    ELSE LET rest == concat(Tail(dfs))
         IN  [columns |-> Head(dfs).columns \cup rest.columns,
              rows |-> Head(dfs).rows \o rest.rows]

\* excel_file.unlink() of every file that exists, unless keep_excel
cleanup(files, keep_excel) ==
    IF keep_excel THEN files ELSE [name \in SplitNames |-> NoFile]

NoTable == [columns |-> {}, rows |-> <<>>]

download_posadas_raise_on_empty(files, old_csv, inputs, keep_excel) ==
    LET f == fetch_splits(1, inputs, files, <<>>)
    IN  IF f.raised \/ f.dfs = <<>>
        THEN [ret |-> "raised", df |-> NoTable, excel |-> f.files, csv |-> old_csv, wrote |-> FALSE]
        ELSE [ret |-> "df", df |-> concat(f.dfs), excel |-> cleanup(f.files, keep_excel),
              csv |-> [exists |-> TRUE, df |-> concat(f.dfs)], wrote |-> TRUE]

download_posadas(files, old_csv, inputs, keep_excel) ==
    LET f == fetch_splits(1, inputs, files, <<>>)
    IN  IF f.raised
        THEN [ret |-> "raised", df |-> NoTable, excel |-> f.files, csv |-> old_csv, wrote |-> FALSE]
        ELSE IF f.dfs = <<>>
        THEN [ret |-> "None", df |-> NoTable, excel |-> f.files, csv |-> old_csv, wrote |-> FALSE]
        ELSE [ret |-> "df", df |-> concat(f.dfs), excel |-> cleanup(f.files, keep_excel),
              csv |-> [exists |-> TRUE, df |-> concat(f.dfs)], wrote |-> TRUE]

\* The transports a run is tried against, one per split
PosadasEnvs ==
    { <<"ok", "ok", "ok">>,
      <<"request_fail", "stream_fail", "ok">>,
      <<"request_fail", "request_fail", "request_fail">>,
      <<"request_fail", "stream_fail", "request_fail">>,
      <<"other_error", "ok", "ok">> }

SplitInputs ==
    { [env |-> e, sheet |-> s] : e \in PosadasEnvs, s \in (-1)..MaxSheetRows }

NoRun ==
    [ret |-> "none", df |-> NoTable, wrote |-> FALSE, keep_excel |-> FALSE,
     inputs |-> [name \in SplitNames |-> [env |-> <<"ok", "ok", "ok">>, sheet |-> 0]],
     before |-> [name \in SplitNames |-> [st |-> "absent", sheet |-> 0]],
     csv_before |-> [exists |-> FALSE, df |-> [columns |-> {}, rows |-> <<>>]]]

\* What earlier runs can have left at an excel_path: nothing, a file whose stream
\* broke, or a completely downloaded file (kept with --keep-excel, or left by a
\* run that returned None)
PriorFiles ==
    {NoFile, [st |-> "partial", sheet |-> 0]}
        \cup { [st |-> "complete", sheet |-> s] : s \in (-1)..MaxSheetRows }

NoCsv == [exists |-> FALSE, df |-> NoTable]
OldCsv ==
    [exists |-> TRUE,
     df |-> [columns |-> {<<"i", "d">>},
             rows |-> << [origin |-> "train", n |-> 1, split |-> "train"] >>]]

InitPosadas ==
    /\ excel \in [SplitNames -> PriorFiles]
    /\ csv \in {NoCsv, OldCsv}
    /\ run = NoRun
    /\ fs = "absent" /\ prev = Summary(NoCall) /\ last = NoCall /\ ncalls = 0
    /\ text = NaN /\ cleaned = <<>> /\ cpc = "call"
    /\ posadas_csv = EmptyPosadas /\ omdena_csv = EmptyOmdena /\ cmd = "none" /\ result = NoResult

\* One run of the download-posadas command
DownloadPosadas ==
    /\ run.ret = "none"
    /\ \E keep_excel \in BOOLEAN, inputs \in [SplitNames -> SplitInputs] :
          \* a transport that is not asked, and the sheet of a response that is never
          \* streamed to the end, are not observed
          /\ \A name \in SplitNames :
                /\ excel[name].st # "absent" => inputs[name] = NoRun.inputs[name]
                /\ (\A i \in 1..3 : inputs[name].env[i] # "ok") => inputs[name].sheet = 0
          /\ LET r == download_posadas(excel, csv, inputs, keep_excel)
             IN  /\ excel' = r.excel
                 /\ csv' = r.csv
                 /\ run' = [ret |-> r.ret, df |-> r.df, wrote |-> r.wrote,
                            keep_excel |-> keep_excel, inputs |-> inputs,
                            before |-> excel, csv_before |-> csv]
    /\ UNCHANGED <<cleanVars, dlVars, procVars>>

NextPosadas == DownloadPosadas

SpecPosadas == InitPosadas /\ [][NextPosadas]_vars

(***************************************************************************)
(* Claims about download_posadas, checked under SpecPosadas.  What each    *)
(* split must contribute is read off the run's inputs: the file found at   *)
(* its path before the run, else what the transport served.                *)
(***************************************************************************)
\* The first attempt that does not end in a caught failure, 0 when all three fail
Decisive(env) ==
    IF \A i \in 1..Len(env) : env[i] \in Failing THEN 0
    ELSE CHOOSE j \in 1..Len(env) :
            /\ env[j] \notin Failing
            /\ \A i \in 1..(j - 1) : env[i] \in Failing

Fetched(name) ==
    \/ run.before[name].st # "absent"
    \/ /\ Decisive(run.inputs[name].env) > 0
       /\ run.inputs[name].env[Decisive(run.inputs[name].env)] = "ok"

DownloadFails(name) ==
    /\ run.before[name].st = "absent"
    /\ Decisive(run.inputs[name].env) = 0

DownloadRaises(name) ==
    /\ run.before[name].st = "absent"
    /\ Decisive(run.inputs[name].env) > 0
    /\ run.inputs[name].env[Decisive(run.inputs[name].env)] = "other_error"

\* The workbook a fetched split is read from: -1 when it cannot be parsed
Workbook(name) ==
    IF run.before[name].st = "partial" THEN -1
    ELSE IF run.before[name].st = "complete" THEN run.before[name].sheet
    ELSE run.inputs[name].sheet

RowsOf(name) ==
    IF Fetched(name) /\ Workbook(name) >= 1 THEN Workbook(name) ELSE 0

ExpectedRows(name) ==
    [n \in 1..RowsOf(name) |-> [origin |-> name, n |-> n, split |-> name]]

Returned == run.ret # "none" /\ \A name \in SplitNames : ~DownloadRaises(name)

\* C3: when at least one split downloads and parses to a non-empty table, the
\* failed and the empty splits are skipped and the combined table is exactly the
\* rows of the good splits, in the order train, test, dev, each row tagged with
\* its own split.
C3_PartialFailureTolerated ==
    (Returned /\ \E name \in SplitNames : RowsOf(name) >= 1) =>
        /\ run.ret = "df"
        /\ run.df.rows = ExpectedRows("train") \o ExpectedRows("test") \o ExpectedRows("dev")
        /\ run.wrote /\ csv = [exists |-> TRUE, df |-> run.df]

C3_Witness ==
    /\ run.ret = "df"
    /\ DownloadFails("train")
    /\ Fetched("test") /\ Workbook("test") = 0
    /\ RowsOf("dev") = 2
    /\ Len(run.df.rows) = 2

\* C4: when no split yields a non-empty table, the run returns None, raises
\* nothing and does not write the combined CSV.
C4_NoneWhenNothingLoaded ==
    (Returned /\ \A name \in SplitNames : RowsOf(name) = 0) =>
        /\ run.ret = "None"
        /\ ~run.wrote
        /\ csv = run.csv_before

C4_Witness ==
    /\ run.ret = "None"
    /\ DownloadFails("train")
    /\ Fetched("test") /\ Workbook("test") = -1
    /\ Fetched("dev") /\ Workbook("dev") = 0
    /\ run.csv_before.exists

InitDownload ==
    /\ fs = "absent" /\ prev = Summary(NoCall) /\ last = NoCall /\ ncalls = 0
    /\ text = NaN /\ cleaned = <<>> /\ cpc = "call"
    /\ excel = [name \in SplitNames |-> NoFile] /\ csv = NoCsv /\ run = NoRun
    /\ posadas_csv = EmptyPosadas /\ omdena_csv = EmptyOmdena /\ cmd = "none" /\ result = NoResult

\* One call of download_file on the destination
Download ==
    /\ ncalls < MaxCalls
    /\ \E k \in 0..MaxRetries, backoff_factor \in 0..MaxBackoff :
         \E env \in Transports(fs, MaxRetries - k) :
            LET retries == MaxRetries - k
                r == download_file(fs, retries, backoff_factor, env)
            IN  /\ fs' = r.fs
                /\ prev' = Summary(last)
                /\ last' = [exists |-> fs # "absent", retries |-> retries,
                            backoff |-> backoff_factor, env |-> env,
                            ret |-> r.ret, log |-> r.log]
                /\ ncalls' = ncalls + 1
    /\ UNCHANGED <<cleanVars, posadasVars, procVars>>

NextDownload == Download

SpecDownload == InitDownload /\ [][NextDownload]_vars

InitClean ==
    /\ text \in Scalars
    /\ cleaned = <<>>
    /\ cpc = "call"
    /\ fs = "absent" /\ prev = Summary(NoCall) /\ last = NoCall /\ ncalls = 0
    /\ excel = [name \in SplitNames |-> NoFile] /\ csv = NoCsv /\ run = NoRun
    /\ posadas_csv = EmptyPosadas /\ omdena_csv = EmptyOmdena /\ cmd = "none" /\ result = NoResult

\* One call of clean_text on a scalar
CleanText ==
    /\ cpc = "call"
    /\ cleaned' = clean_text(text)
    /\ cpc' = "returned"
    /\ UNCHANGED <<text, dlVars, posadasVars, procVars>>

NextClean == CleanText

SpecClean == InitClean /\ [][NextClean]_vars

InitProcess ==
    /\ \/ posadas_csv \in Files(PosadasRows, PosadasColumns, MaxRows) /\ omdena_csv = EmptyOmdena
       \/ omdena_csv \in Files(OmdenaRows, OmdenaColumns, MaxRows) /\ posadas_csv = EmptyPosadas
       \/ posadas_csv \in MergePosadasFiles /\ omdena_csv \in MergeOmdenaFiles
    /\ cmd = "none" /\ result = NoResult
    /\ text = NaN /\ cleaned = <<>> /\ cpc = "call"
    /\ fs = "absent" /\ prev = Summary(NoCall) /\ last = NoCall /\ ncalls = 0
    /\ excel = [name \in SplitNames |-> NoFile] /\ csv = NoCsv /\ run = NoRun

\* The process-posadas-dataset command
ProcessPosadas ==
    /\ cmd = "none"
    /\ cmd' = "process_posadas"
    /\ result' = LET r == process_posadas_dataset(posadas_csv)
                 IN  [raised |-> r.raised, rows |-> r.rows, warned |-> FALSE]
    /\ UNCHANGED <<posadas_csv, omdena_csv, cleanVars, dlVars, posadasVars>>

\* The process-omdena-dataset command
ProcessOmdena ==
    /\ cmd = "none"
    /\ cmd' = "process_omdena"
    /\ result' = LET r == process_omdena_dataset(omdena_csv)
                 IN  [raised |-> r.raised, rows |-> r.rows, warned |-> FALSE]
    /\ UNCHANGED <<posadas_csv, omdena_csv, cleanVars, dlVars, posadasVars>>

\* The merge-datasets command
MergeDatasets ==
    /\ cmd = "none"
    /\ cmd' = "merge"
    /\ result' = merge_datasets(posadas_csv, omdena_csv)
    /\ UNCHANGED <<posadas_csv, omdena_csv, cleanVars, dlVars, posadasVars>>

NextProcess == ProcessPosadas \/ ProcessOmdena \/ MergeDatasets

SpecProcess == InitProcess /\ [][NextProcess]_vars

====
